---------------------------- MODULE Spec2Model ----------------------------
(***************************************************************************)
(* Model of src/app.py: the data store filled by load_data() and the       *)
(* request handler index(), which runs parse_question() and                *)
(* search_answer() on the posted question.                                 *)
(*                                                                         *)
(* Strings are sequences of symbols.  Player names are spelled letter by   *)
(* letter, so that str.lower() and the substring test `a in b` behave as   *)
(* in Python.  Each Korean keyword of parse_question is one symbol:        *)
(*   "pts_sunwi" = deukjeom sunwi, "pts_top" = deukjeom tab,               *)
(*   "pts_1wi" = deukjeom 1wi, and the same for "ast_" (eosiseuteu) and    *)
(*   "trb_" (ribaundeu); "seonsu_myeongdan", "membeo", "seonsu_mongnok"    *)
(*   are the roster keywords, "leikeoseu"/"boseuton" the team names,       *)
(*   "jeonggyu" + "sijeun" spell jeonggyu-sijeun (so that sijeun is a      *)
(*   substring of it), "eomneun_seonsu" and "girok" are ordinary words.    *)
(***************************************************************************)
EXTENDS Integers, Sequences, FiniteSets, TLC

VARIABLES
    df_per_game,        \* global df_per_game (app.py:14)
    df_standings,       \* global df_standings (app.py:15)
    players_list,       \* global players_list (app.py:16)
    log,                \* the line load_data printed
    pc,                 \* "import" until load_data() ran, "serving" between
                        \* requests, "responded" while a response is on its way
    method,             \* request.method of the last request
    question,           \* request.form["question"] of the last request
    parsed,             \* local parsed of index()
    result_df,          \* local result_df of search_answer (ranking branch)
    player_data,        \* local player_data of search_answer (player branch)
    answer,             \* local answer of index()
    status,             \* HTTP status of the last response
    players_to_display  \* local players_to_display of index()

vars == << df_per_game, df_standings, players_list, log, pc, method, question,
           parsed, result_df, player_data, answer, status, players_to_display >>

----------------------------------------------------------------------------
(* Bounds of the enumerated inputs *)

MaxRows == 2        \* rows of a generated per_game table
MaxStat == 1        \* PTS values are 0..MaxStat
MaxGames == 2       \* G values are 1..MaxGames
MaxParts == 2       \* words of a posted question

HeadN == 5          \* head(5), app.py:101

----------------------------------------------------------------------------
(* Python str operations *)

\* str.lower() on one symbol
LowerChar(c) ==
    CASE c = "B" -> "b"
      [] c = "C" -> "c"
      [] c = "MVP" -> "mvp"
      [] c = "Lakers" -> "lakers"
      [] c = "Celtics" -> "celtics"
      [] OTHER -> c

\* str.lower()
Lower(s) == [i \in 1..Len(s) |-> LowerChar(s[i])]

\* needle in hay
Contains(needle, hay) ==
    \E i \in 0..(Len(hay) - Len(needle)) :
        SubSeq(hay, i + 1, i + Len(needle)) = needle

\* code point of a letter of a player name
Ord(c) ==
    CASE c = "B" -> 66
      [] c = "C" -> 67
      [] c = "a" -> 97
      [] c = "b" -> 98
      [] c = "c" -> 99
      [] c = "e" -> 101
      [] c = "l" -> 108
      [] c = "m" -> 109
      [] c = "p" -> 112
      [] OTHER -> 0

Min2(a, b) == IF a <= b THEN a ELSE b

\* a < b for str: the first differing code point decides, a proper prefix is smaller
StrLess(a, b) ==
    LET n == Min2(Len(a), Len(b))
        diff == {i \in 1..n : a[i] # b[i]}
    IN  IF diff = {}
        THEN Len(a) < Len(b)
        ELSE LET k == CHOOSE i \in diff : \A j \in diff : i <= j
             IN  Ord(a[k]) < Ord(b[k])

RECURSIVE sorted(_)
\* sorted(iterable of distinct str)
sorted(S) ==
    IF S = {} THEN << >>
    ELSE LET m == CHOOSE x \in S : \A y \in S \ {x} : StrLess(x, y)
         IN  << m >> \o sorted(S \ {m})

----------------------------------------------------------------------------
(* Data: rows, DataFrames and the two CSV files *)

Bell == << "B", "e", "l", "l" >>
Campbell == << "C", "a", "m", "p", "b", "e", "l", "l" >>
PlayerNames == {Bell, Campbell}

Seasons == {"2023-24", "2022-23"}

\* the columns search_answer reads, and two it never reads
ReadColumns == {"Player", "Tm", "PTS", "AST", "TRB", "FG%"}
Columns == ReadColumns \cup {"G", "Season"}

\* one line of per_game.csv; AST and TRB are fixed by PTS and G to keep the
\* enumeration small, and order the rows differently from PTS
MkRow(p, pts, g, s) ==
    [Player |-> p, Tm |-> "LAL", PTS |-> pts, AST |-> MaxStat - pts,
     TRB |-> g, FG |-> pts, G |-> g, Season |-> s]

RowSet == {MkRow(p, pts, g, s) : p \in PlayerNames, pts \in 0..MaxStat,
                                 g \in 1..MaxGames, s \in Seasons}

\* a DataFrame with the default RangeIndex: row i has index label i - 1
DataFrame(cols, rows) == [none |-> FALSE, cols |-> cols, rows |-> rows]
NoneDF == [none |-> TRUE, cols |-> {}, rows |-> << >>]
\* pd.DataFrame()
EmptyDF == DataFrame({}, << >>)
\* DataFrame.empty: some axis has length 0
IsEmpty(df) == df.cols = {} \/ Len(df.rows) = 0

NoneList == [none |-> TRUE, items |-> << >>]
List(items) == [none |-> FALSE, items |-> items]

\* per_game.csv with every column, up to MaxRows lines
FullTables ==
    {DataFrame(Columns, rows) :
        rows \in UNION {[1..k -> RowSet] : k \in 0..MaxRows}}

\* per_game.csv with one of the columns the code reads missing
DeficientTables ==
    {DataFrame(Columns \ {c}, rows) :
        c \in ReadColumns, rows \in UNION {[1..k -> RowSet] : k \in 0..1}}

\* per_game.csv with more than HeadN lines that differ in PTS only
LongTables ==
    {DataFrame(Columns,
               [i \in 1..(HeadN + 1) |-> MkRow(Bell, f[i], MaxGames, "2023-24")]) :
        f \in [1..(HeadN + 1) -> 0..1]}

PerGameTables == FullTables \cup DeficientTables \cup LongTables

\* per_game.csv files that differ in what the player lookup reads: the Player
\* column (which names, in which order, in how many rows) and the columns
\* present; the other values are the same in every row
PlayerRowSet == {MkRow(p, 0, 1, "2023-24") : p \in PlayerNames}

PlayerTables ==
    {DataFrame(cols, rows) :
        cols \in {Columns} \cup {Columns \ {c} : c \in ReadColumns},
        rows \in UNION {[1..k -> PlayerRowSet] : k \in 0..MaxRows}}

StandingsTable ==
    DataFrame({"Team", "Conf", "Rank"},
              << [Team |-> "Boston Celtics", Conf |-> "East", Rank |-> 1] >>)

\* what pd.read_csv finds: no file, a file it cannot parse, or a table
PerGameFiles ==
    {[kind |-> "missing", df |-> NoneDF], [kind |-> "malformed", df |-> NoneDF]}
    \cup {[kind |-> "csv", df |-> t] : t \in PerGameTables}

PlayerFiles ==
    {[kind |-> "missing", df |-> NoneDF], [kind |-> "malformed", df |-> NoneDF]}
    \cup {[kind |-> "csv", df |-> t] : t \in PlayerTables}

StandingsFiles ==
    {[kind |-> "missing", df |-> NoneDF], [kind |-> "malformed", df |-> NoneDF],
     [kind |-> "csv", df |-> StandingsTable]}

----------------------------------------------------------------------------
(* load_data *)

\* the globals, and the line load_data prints (app.py:34, 37, 42)
Store(pg, st, pl, out) ==
    [df_per_game |-> pg, df_standings |-> st, players_list |-> pl, log |-> out]

\* except FileNotFoundError (app.py:36-40)
OnFileNotFound == Store(EmptyDF, EmptyDF, List(<< >>), "file_not_found")

\* except Exception (app.py:41-43): only players_list is assigned
OnException(g) == Store(g.df_per_game, g.df_standings, List(<< >>), "exception")

\* df_per_game['Player'].unique()
Unique(df) == {df.rows[i].Player : i \in 1..Len(df.rows)}

\* the globals load_data leaves, from the globals g it starts with and the
\* two files it reads
load_data(g, pg, st) ==
    IF pg.kind = "missing" THEN OnFileNotFound
    ELSE IF pg.kind = "malformed" THEN OnException(g)
    ELSE LET g1 == Store(pg.df, g.df_standings, g.players_list, g.log)
         IN  IF st.kind = "missing" THEN OnFileNotFound
             ELSE IF st.kind = "malformed" THEN OnException(g1)
             ELSE LET g2 == Store(g1.df_per_game, st.df, g1.players_list, g1.log)
                  IN  IF "Player" \notin g2.df_per_game.cols
                      THEN OnException(g2)
                      ELSE Store(g2.df_per_game, g2.df_standings,
                                 List(sorted(Unique(g2.df_per_game))), "ok")

----------------------------------------------------------------------------
(* parse_question *)

\* Python None as a target, and as a stat
NoTarget == << "None" >>
NoStat == "None"

Parsed(t, target, stat) == [type |-> t, target |-> target, stat |-> stat]

\* one of the keywords kws is in the question q
AnyIn(kws, q) == \E k \in kws : Contains(<< k >>, q)

\* app.py:54-62: the if/elif chain over the ranking keywords
RankingRule(q, p) ==
    IF AnyIn({"pts_sunwi", "pts_top", "pts_1wi"}, q)
    THEN Parsed("ranking", p.target, "PTS")
    ELSE IF AnyIn({"ast_sunwi", "ast_top", "ast_1wi"}, q)
    THEN Parsed("ranking", p.target, "AST")
    ELSE IF AnyIn({"trb_sunwi", "trb_top", "trb_1wi"}, q)
    THEN Parsed("ranking", p.target, "TRB")
    ELSE p

\* app.py:65: players_list if players_list else []
Iterable(pl) == IF pl.none \/ Len(pl.items) = 0 THEN << >> ELSE pl.items

\* app.py:65-69: the first player of the list whose lower-cased name is in q
PlayerRule(q, p, pl) ==
    LET items == Iterable(pl)
        hits == {i \in 1..Len(items) : Contains(Lower(items[i]), q)}
    IN  IF hits = {} THEN p
        ELSE LET i == CHOOSE h \in hits : \A k \in hits : h <= k
             IN  Parsed("player_stat", items[i], p.stat)

\* app.py:72-78
RosterRule(q, p) ==
    IF AnyIn({"seonsu_myeongdan", "membeo", "seonsu_mongnok"}, q)
    THEN IF AnyIn({"leikeoseu", "lakers"}, q) THEN Parsed("roster", << "LAL" >>, p.stat)
         ELSE IF AnyIn({"boseuton", "celtics"}, q) THEN Parsed("roster", << "BOS" >>, p.stat)
         ELSE Parsed("roster", p.target, p.stat)
    ELSE p

\* app.py:81-83
AwardRule(q, p) ==
    IF Contains(<< "mvp" >>, q)
       /\ (Contains(<< "jeonggyu", "sijeun" >>, q) \/ Contains(<< "sijeun" >>, q))
    THEN Parsed("award", << "MVP" >>, p.stat)
    ELSE p

parse_question(qu, pl) ==
    LET q == Lower(qu)
        p0 == Parsed("other", NoTarget, NoStat)
        p1 == RankingRule(q, p0)
        p2 == PlayerRule(q, p1, pl)
        p3 == RosterRule(q, p2)
    IN  AwardRule(q, p3)

----------------------------------------------------------------------------
(* search_answer *)

\* row[col]
Get(row, col) ==
    CASE col = "Player" -> row.Player
      [] col = "Tm" -> row.Tm
      [] col = "PTS" -> row.PTS
      [] col = "AST" -> row.AST
      [] col = "TRB" -> row.TRB
      [] col = "FG%" -> row.FG
      [] col = "G" -> row.G
      [] col = "Season" -> row.Season

\* the rows of a DataFrame with their index labels
Labelled(df) == [i \in 1..Len(df.rows) |-> [label |-> i - 1, row |-> df.rows[i]]]

Drop(s, i) == [j \in 1..(Len(s) - 1) |-> IF j < i THEN s[j] ELSE s[j + 1]]

RECURSIVE SortDesc(_, _)
\* sort_values(by=col, ascending=False) on labelled rows; rows with equal
\* values keep their order
SortDesc(s, col) ==
    IF Len(s) = 0 THEN << >>
    ELSE LET best == {i \in 1..Len(s) :
                        \A j \in 1..Len(s) : Get(s[j].row, col) <= Get(s[i].row, col)}
             i == CHOOSE b \in best : \A c \in best : b <= c
         IN  << s[i] >> \o SortDesc(Drop(s, i), col)

\* head(n)
Head_(s, n) == SubSeq(s, 1, Min2(n, Len(s)))

\* python truth value of parsed["target"] / parsed["stat"]
Truthy(t) == t # NoTarget /\ Len(t) > 0

Answer(kind, stat, target, lines, card) ==
    [kind |-> kind, stat |-> stat, target |-> target, lines |-> lines, card |-> card]

Text(kind) == Answer(kind, NoStat, NoTarget, << >>, << >>)

\* what a call of search_answer yields: a returned answer, or a raised KeyError
Return(a, rdf, pd) == [raised |-> FALSE, exc |-> "", answer |-> a,
                       result_df |-> rdf, player_data |-> pd]
Raise(key, rdf, pd) == [raised |-> TRUE, exc |-> key, answer |-> Text("none"),
                        result_df |-> rdf, player_data |-> pd]

\* the first of the columns wanted (in the order the code reads them) that
\* the DataFrame lacks, "" when it has them all
FirstMissing(df, wanted) ==
    LET miss == {i \in 1..Len(wanted) : wanted[i] \notin df.cols}
    IN  IF miss = {} THEN ""
        ELSE wanted[CHOOSE i \in miss : \A j \in miss : i <= j]

\* app.py:106-107: one line per row of result_df, numbered by index label + 1
RankingLines(rdf, stat) ==
    [i \in 1..Len(rdf) |->
        [rank |-> rdf[i].label + 1, Player |-> rdf[i].row.Player,
         Tm |-> rdf[i].row.Tm, value |-> Get(rdf[i].row, stat)]]

\* app.py:96-108
RankingBranch(parsed_, df) ==
    IF df.none \/ IsEmpty(df) THEN Return(Text("data_unavailable"), << >>, << >>)
    ELSE IF parsed_.stat \notin df.cols THEN Raise(parsed_.stat, << >>, << >>)
    ELSE LET rdf == Head_(SortDesc(Labelled(df), parsed_.stat), HeadN)
             miss == FirstMissing(df, << "Player", "Tm", parsed_.stat >>)
         IN  IF miss # "" THEN Raise(miss, rdf, << >>)
             ELSE Return(Answer("ranking", parsed_.stat, NoTarget,
                                RankingLines(rdf, parsed_.stat), << >>),
                         rdf, << >>)

\* app.py:119-124: the fields of the row the answer prints
Card(row) == [Player |-> row.Player, Tm |-> row.Tm, PTS |-> row.PTS,
              AST |-> row.AST, TRB |-> row.TRB, FG |-> row.FG]

\* the season both answer headers name (app.py:103, app.py:119)
AnswerSeason == "2023-24"

\* the selection with the target lower-cased before the comparison
PlayerRowsLowered(df, target) ==
    SelectSeq(Labelled(df), LAMBDA lr : lr.row.Player = Lower(target))

\* df_per_game[df_per_game['Player'] == target]
PlayerRows(df, target) ==
    SelectSeq(Labelled(df), LAMBDA lr : lr.row.Player = target)

\* app.py:111-127
PlayerBranch(parsed_, df) ==
    IF df.none \/ IsEmpty(df) THEN Return(Text("data_unavailable"), << >>, << >>)
    ELSE IF "Player" \notin df.cols THEN Raise("Player", << >>, << >>)
    ELSE LET pd == Head_(PlayerRows(df, parsed_.target), 1)
             miss == FirstMissing(df, << "Player", "Tm", "PTS", "AST", "TRB", "FG%" >>)
         IN  IF Len(pd) = 0
             THEN Return(Answer("player_not_found", NoStat, parsed_.target, << >>, << >>),
                         << >>, pd)
             ELSE IF miss # "" THEN Raise(miss, << >>, pd)
             ELSE Return(Answer("player", NoStat, NoTarget, << >>, << Card(pd[1].row) >>),
                         << >>, pd)

search_answer(parsed_, df) ==
    IF parsed_.type = "ranking" /\ parsed_.stat # NoStat
    THEN RankingBranch(parsed_, df)
    ELSE IF parsed_.type = "player_stat" /\ Truthy(parsed_.target)
    THEN PlayerBranch(parsed_, df)
    ELSE IF parsed_.type = "roster"
    THEN Return(Answer("roster", NoStat, parsed_.target, << >>, << >>), << >>, << >>)
    ELSE IF parsed_.type = "award"
    THEN Return(Text("award"), << >>, << >>)
    ELSE Return(Text("unsupported"), << >>, << >>)

----------------------------------------------------------------------------
(* index, and the life of the process *)

Words ==
    { << "pts_sunwi" >>, << "ast_top" >>, << "trb_1wi" >>,
      Bell, Campbell, Lower(Campbell),
      << "eomneun_seonsu" >>, << "girok" >>,
      << "seonsu_myeongdan" >>, << "leikeoseu" >>, << "Celtics" >>,
      << "MVP" >>, << "jeonggyu", "sijeun" >> }

RECURSIVE Join(_)
Join(ws) == IF Len(ws) = 0 THEN << >> ELSE Head(ws) \o Join(Tail(ws))

\* the questions posted: up to MaxParts words
Questions == {Join(ws) : ws \in UNION {[1..k -> Words] : k \in 0..MaxParts}}

NoParsed == Parsed("none", NoTarget, NoStat)
Loading == << << "loading" >> >>

\* app.py:502
PlayersToDisplay(pl) == IF pl.none THEN Loading ELSE pl.items

Init ==
    /\ df_per_game = NoneDF
    /\ df_standings = NoneDF
    /\ players_list = NoneList
    /\ log = ""
    /\ pc = "import"
    /\ method = "none"
    /\ question = << >>
    /\ parsed = NoParsed
    /\ result_df = << >>
    /\ player_data = << >>
    /\ answer = Text("none")
    /\ status = 0
    /\ players_to_display = << >>

\* app.py:512: load_data() runs once, while the module is imported; files
\* is what per_game.csv may be
LoadDataFrom(files) ==
    /\ pc = "import"
    /\ \E pg \in files, st \in StandingsFiles :
         LET g == load_data(Store(df_per_game, df_standings, players_list, log), pg, st)
         IN  /\ df_per_game' = g.df_per_game
             /\ df_standings' = g.df_standings
             /\ players_list' = g.players_list
             /\ log' = g.log
    /\ pc' = "serving"
    /\ UNCHANGED << method, question, parsed, result_df, player_data, answer,
                    status, players_to_display >>

LoadData == LoadDataFrom(PerGameFiles)

LoadPlayerData == LoadDataFrom(PlayerFiles)

\* app.py:488-508, POST with a question
IndexPost ==
    /\ pc = "serving"
    /\ \E q \in Questions :
         LET p == parse_question(q, players_list)
             r == search_answer(p, df_per_game)
         IN  /\ question' = q
             /\ parsed' = p
             /\ result_df' = r.result_df
             /\ player_data' = r.player_data
             /\ answer' = IF r.raised
                          THEN Answer("error", r.exc, NoTarget, << >>, << >>)
                          ELSE r.answer
    /\ method' = "POST"
    /\ status' = 200
    /\ players_to_display' = PlayersToDisplay(players_list)
    /\ pc' = "responded"
    /\ UNCHANGED << df_per_game, df_standings, players_list, log >>

\* app.py:488-508, GET
IndexGet ==
    /\ pc = "serving"
    /\ method' = "GET"
    /\ question' = << >>
    /\ parsed' = NoParsed
    /\ result_df' = << >>
    /\ player_data' = << >>
    /\ answer' = Text("none")
    /\ status' = 200
    /\ players_to_display' = PlayersToDisplay(players_list)
    /\ pc' = "responded"
    /\ UNCHANGED << df_per_game, df_standings, players_list, log >>

\* app.py:493: a POST whose form has no "question" field; request.form[...]
\* raises outside the try block and the response is 400 Bad Request
IndexPostNoField ==
    /\ pc = "serving"
    /\ method' = "POST"
    /\ question' = << >>
    /\ parsed' = NoParsed
    /\ result_df' = << >>
    /\ player_data' = << >>
    /\ answer' = Text("none")
    /\ status' = 400
    /\ players_to_display' = << >>
    /\ pc' = "responded"
    /\ UNCHANGED << df_per_game, df_standings, players_list, log >>

\* the response has left; the locals of index() are gone
Respond ==
    /\ pc = "responded"
    /\ pc' = "serving"
    /\ method' = "none"
    /\ question' = << >>
    /\ parsed' = NoParsed
    /\ result_df' = << >>
    /\ player_data' = << >>
    /\ answer' = Text("none")
    /\ status' = 0
    /\ players_to_display' = << >>
    /\ UNCHANGED << df_per_game, df_standings, players_list, log >>

Next == LoadData \/ IndexPost \/ IndexGet \/ IndexPostNoField \/ Respond

Spec == Init /\ [][Next]_vars

\* the same process over the per_game.csv files of PlayerFiles
NextPlayers == LoadPlayerData \/ IndexPost \/ IndexGet \/ IndexPostNoField \/ Respond

SpecPlayers == Init /\ [][NextPlayers]_vars

----------------------------------------------------------------------------
(* Properties *)

\* a resolve call has answered: index() handled a POST that carried a question
Resolved == pc = "responded" /\ method = "POST" /\ status = 200

Unavailable(df) == df.none \/ IsEmpty(df)

P0 == Parsed("other", NoTarget, NoStat)
RankingMatches(q) == RankingRule(q, P0).type = "ranking"
PlayerMatches(q, pl) == PlayerRule(q, P0, pl).type = "player_stat"

\* C1: every resolve call returns one of the answer texts of search_answer
\* (an answer, data unavailable, not found, not implemented, not supported);
\* no lookup failure comes back as the text of an exception.
C1_NeverFailsOutward ==
    Resolved =>
        answer.kind \in {"ranking", "player", "data_unavailable", "player_not_found",
                         "roster", "award", "unsupported"}

\* C2: once load_data left no per-game data (file missing or without rows),
\* every resolve call answers with the data-unavailable message.
C2_EmptySourceAlwaysUnavailable ==
    (Resolved /\ Unavailable(df_per_game)) => answer.kind = "data_unavailable"

\* C3: whenever load_data failed (it printed one of its two failure lines),
\* both tables hold no data (None counts as empty here) and the player list
\* is empty: no table is populated.
C3_FailedLoadLeavesEmptyStore ==
    log \in {"file_not_found", "exception"} =>
        /\ Unavailable(df_per_game)
        /\ Unavailable(df_standings)
        /\ players_list = List(<< >>)

\* C4: the first rule that matches decides the intent: a question the ranking
\* rule matches is a ranking question, and one the ranking rule does not match
\* but the player rule matches is a player_stat question.
C4_FirstMatchWins ==
    Resolved =>
        LET q == Lower(question)
        IN  /\ RankingMatches(q) => parsed.type = "ranking"
            /\ (~RankingMatches(q) /\ PlayerMatches(q, players_list))
                   => parsed.type = "player_stat"

\* the positions at which needle occurs in hay
Occurrences(needle, hay) ==
    {i \in 1..(Len(hay) - Len(needle) + 1) :
        SubSeq(hay, i, i + Len(needle) - 1) = needle}

\* every occurrence of short in q lies inside an occurrence of long
OnlyInside(short, long, q) ==
    \A i \in Occurrences(short, q) :
        \E j \in Occurrences(long, q) : j <= i /\ i + Len(short) <= j + Len(long)

\* C5: for two known names, one contained in the other, a question that
\* contains the longer name (and the shorter one only as part of it) gets the
\* longer name as its target.
C5_LongestNameFirst ==
    Resolved =>
        \A i, j \in 1..Len(players_list.items) :
            LET long == players_list.items[i]
                short == players_list.items[j]
                q == Lower(question)
            IN  (/\ long # short
                 /\ Contains(Lower(short), Lower(long))
                 /\ Contains(Lower(long), q)
                 /\ OnlyInside(Lower(short), Lower(long), q)
                 /\ parsed.type = "player_stat")
                    => parsed.target = long

\* C6: the lines of a ranking answer are in descending order of the stat and
\* are numbered 1, 2, 3, ... by position.
C6_RankingNumberedByPosition ==
    (Resolved /\ answer.kind = "ranking") =>
        /\ \A i \in 1..(Len(answer.lines) - 1) :
               answer.lines[i].value >= answer.lines[i + 1].value
        /\ \A i \in 1..Len(answer.lines) : answer.lines[i].rank = i

\* the most games anyone played in season s
MaxGamesIn(df, s) ==
    LET gs == {df.rows[i].G : i \in {k \in 1..Len(df.rows) : df.rows[k].Season = s}}
    IN  IF gs = {} THEN 0 ELSE CHOOSE g \in gs : \A h \in gs : h <= g

\* C7: the rows of a ranking answer are at most n, non-increasing in the stat,
\* of the season the answer names, and each has played at least half the
\* games of that season's maximum.
C7_RankingRowsQualified ==
    (Resolved /\ answer.kind = "ranking") =>
        /\ Len(result_df) <= HeadN
        /\ \A i \in 1..(Len(result_df) - 1) :
               Get(result_df[i].row, parsed.stat) >= Get(result_df[i + 1].row, parsed.stat)
        /\ \A i \in 1..Len(result_df) :
               /\ result_df[i].row.Season = AnswerSeason
               /\ 2 * result_df[i].row.G >= MaxGamesIn(df_per_game, AnswerSeason)

\* the names a question can ask about
AskedNames == PlayerNames \cup { << "eomneun_seonsu" >> }

\* C8: with the data loaded, a question for the record ("girok") of a player
\* who is not in the table gets the player-not-found message.
C8_AbsentPlayerNotFound ==
    (Resolved /\ log = "ok" /\ ~Unavailable(df_per_game)) =>
        \A n \in AskedNames :
            (n \notin Unique(df_per_game) /\ question = n \o << "girok" >>)
                => answer.kind = "player_not_found"

\* C9: the row a player answer is built from has the player asked for, and no
\* other row of that player and season has more games played.
C9_PlayerRowMostGames ==
    (Resolved /\ answer.kind = "player") =>
        /\ player_data[1].row.Player = parsed.target
        /\ \A i \in 1..Len(df_per_game.rows) :
               LET r == df_per_game.rows[i]
               IN  (r.Player = parsed.target /\ r.Season = player_data[1].row.Season)
                       => r.G <= player_data[1].row.G

\* C10: once load_data ran, every name of players_list is a Player value of a
\* non-empty df_per_game; a player_stat question has its row found; and no
\* resolve call answers with the player-not-found message.
C10_PlayerAlwaysFound ==
    pc # "import" =>
        /\ \A i \in 1..Len(players_list.items) :
               /\ ~Unavailable(df_per_game)
               /\ "Player" \in df_per_game.cols
               /\ players_list.items[i] \in Unique(df_per_game)
        /\ (Resolved /\ parsed.type = "player_stat") =>
               /\ Len(player_data) = 1
               /\ player_data[1].row.Player = parsed.target
        /\ answer.kind # "player_not_found"

\* a player_stat question was answered from the row of its player
C10_Witness ==
    /\ Resolved
    /\ parsed.type = "player_stat"
    /\ answer.kind = "player"
    /\ answer.card[1].Player = parsed.target
    /\ Len(players_list.items) = 2

====
